---- MODULE Spec2Model ----
(***************************************************************************)
(* MarkPigeon conversion pipeline: Converter.convert_file and              *)
(* Converter.convert_batch (src/src/core/converter.py) over                *)
(* MarkdownParser (parser.py), HtmlRenderer (renderer.py) and ZipPacker    *)
(* (packer.py), run against an abstract filesystem.                        *)
(***************************************************************************)
EXTENDS Integers, Sequences, FiniteSets, TLC

\* ------------------------------------------------------------------ bounds
\* Longest input list handed to convert_batch.
MaxBatch == 2
\* Number of calls a caller makes on one Converter in a session.
MaxCalls == 2
\* Most <img> tags in a document handed to the parser or the renderer.
MaxImages == 3
\* Number of calls a caller makes on the parser, the renderer and the packer
\* themselves in a session.
MaxApiCalls == 1

\* ------------------------------------------------------------------- paths
None == [kind |-> "none"]

File(d, s, e) == [kind |-> "file", dir |-> d, stem |-> s, ext |-> e]

Dir(d) == [kind |-> "dir", dir |-> d]

\* The directory assets_<base> under directory d.
AssetsDir(d, base) == [kind |-> "assets", dir |-> d, base |-> base]

\* A file named n (a [stem, ext, suf] record) inside assets_<base> under d.
AssetFile(d, base, n) == [kind |-> "asset", dir |-> d, base |-> base, name |-> n]

\* A directory inside assets_<base> under d, at the relative path rel.
AssetSubDir(d, base, rel) == [kind |-> "assetsub", dir |-> d, base |-> base, rel |-> rel]

\* f"{stem}_{file_hash}" for the stems and suffixes that occur: the string
\* itself, so that a disambiguated name equals a plain name spelt the same.
Join(s, suf) ==
  CASE s = "pic" /\ suf = "0a1b2c3d" -> "pic_0a1b2c3d"
    [] s = "pic" /\ suf = "5e6f7a8b" -> "pic_5e6f7a8b"
    [] s = "pic" /\ suf = "0001" -> "pic_0001"
    [] s = "placeholder_pic" /\ suf = "0001" -> "placeholder_pic_0001"
    [] s = "placeholder_pic" /\ suf = "0002" -> "placeholder_pic_0002"
    [] s = "placeholder_pic" /\ suf = "0003" -> "placeholder_pic_0003"
    [] s = "placeholder_pic_0001" /\ suf = "0001" -> "placeholder_pic_0001_0001"
    [] s = "placeholder_pic_0001" /\ suf = "0002" -> "placeholder_pic_0001_0002"
    [] s = "placeholder_pic_0001" /\ suf = "0003" -> "placeholder_pic_0001_0003"
    [] OTHER -> "unnamed"

\* A file name of the asset directory: <stem><ext>, or <stem>_<suf><ext>.
Name(s, e, suf) == [stem |-> IF suf = "" THEN s ELSE Join(s, suf), ext |-> e]

\* str.lower() on the suffixes that occur.
Lower(e) ==
  CASE e = ".MD" -> ".md"
    [] e = ".Markdown" -> ".markdown"
    [] e = ".PNG" -> ".png"
    [] OTHER -> e

\* ------------------------------------------------------- the working files
\* Markdown sources a caller may name. ghost.md is never on disk.
Sources ==
  { File("in1", "a", ".md"),
    File("in1", "b", ".MD"),
    File("in2", "a", ".Markdown"),
    File("in1", "c", ".txt"),
    File("in1", "e", ".md"),
    File("in1", "ghost", ".md") }

\* Image sources referenced by the documents.
Srcs == {"pic.png", "https://x/r.png"}

\* Local image sources of the documents handed to the parser and the
\* renderer directly: a plain relative path, the same basename in a
\* subdirectory, and a basename spelt like a disambiguated one.
LocalSrcs == {"pic.png", "sub/pic.png", "pic_0001.png"}

\* The remote image such a document may start with.
RemoteSrc == "https://x/r.png"

\* Further srcs a single <img> of a parsed document may carry: a remote URL
\* with its scheme URL-encoded or in upper case, a data URL, and a URL whose
\* scheme is none of http, https, data.
SchemeSrcs == {"https%3A//x/r.png", "HTTP://x/r.png", "data:image/png;base64,AA==", "ftp://x/r.png"}

\* The text of each source: whether it holds any Markdown at all, and the
\* src of each image it references, in document order.
Content(p) ==
  CASE p = File("in1", "a", ".md") -> [text |-> TRUE, imgs |-> <<"pic.png">>]
    [] p = File("in1", "b", ".MD") -> [text |-> TRUE, imgs |-> <<"https://x/r.png">>]
    [] p = File("in2", "a", ".Markdown") -> [text |-> TRUE, imgs |-> <<"pic.png">>]
    [] p = File("in1", "c", ".txt") -> [text |-> TRUE, imgs |-> <<>>]
    [] OTHER -> [text |-> FALSE, imgs |-> <<>>]

\* Output of an earlier session, left in the directory pub: x.html with its
\* asset directory (one image, and one more in a subdirectory), y.html
\* without one, and the archive z.zip whose z.html is gone.
PublishedFiles ==
  { Dir("pub"),
    File("pub", "x", ".html"), AssetsDir("pub", "x"),
    AssetFile("pub", "x", Name("pic", ".png", "")),
    AssetSubDir("pub", "x", "icons"),
    AssetFile("pub", "x", Name("icons/dot", ".png", "")),
    File("pub", "y", ".html"),
    File("pub", "z", ".zip") }

\* The filesystem before the first call.
InitialFiles ==
  { Dir("in1"), Dir("in2"), Dir("in1/sub"),
    File("in1", "a", ".md"), File("in1", "b", ".MD"),
    File("in2", "a", ".Markdown"), File("in1", "c", ".txt"),
    File("in1", "e", ".md"), File("in1", "pic", ".png"),
    File("in1/sub", "pic", ".png") } \cup PublishedFiles

\* Operations of the operating system that can fail under a call. Under
\* "asset_space" the disk has room for one asset: the first copy or save of
\* a render call goes through and the later ones fail.
FaultKinds ==
  {"read", "transform", "mkdir", "copy", "save", "asset_space", "write",
   "zip_open", "zip_write", "unlink", "rmtree"}

\* At most one kind of operation fails in a session.
FaultSets == {{}} \cup {{f} : f \in FaultKinds}

\* ------------------------------------------------------------ export modes
DEFAULT == "default"

INDIVIDUAL_ZIP == "zip"

BATCH_ZIP == "batch"

\* The value callers pass for the standalone mode (cli --standalone).
STANDALONE == "standalone"

Modes == {DEFAULT, INDIVIDUAL_ZIP, BATCH_ZIP, STANDALONE}

\* The attributes class ExportMode defines.
ExportModeAttrs == {"DEFAULT", "INDIVIDUAL_ZIP", "BATCH_ZIP"}

\* The parameters HtmlRenderer.render accepts.
RenderParams == {"parse_result", "output_dir", "theme_name", "title", "lang"}

\* ----------------------------------------------------------------- helpers
RECURSIVE SelectSeqBy(_, _)
\* The subsequence of s whose elements lie in the set keep.
SelectSeqBy(s, keep) ==
  IF s = <<>> THEN <<>>
  ELSE (IF Head(s) \in keep THEN <<Head(s)>> ELSE <<>>) \o SelectSeqBy(Tail(s), keep)

RECURSIVE SetToSeq(_)
\* The elements of a finite set in some fixed order.
SetToSeq(S) ==
  IF S = {} THEN <<>>
  ELSE LET x == CHOOSE y \in S : TRUE IN <<x>> \o SetToSeq(S \ {x})

Range(s) == { s[i] : i \in 1..Len(s) }

\* All sequences over S of length at most n.
RECURSIVE SeqsUpTo(_, _)
SeqsUpTo(S, n) ==
  IF n = 0 THEN {<<>>}
  ELSE LET shorter == SeqsUpTo(S, n - 1)
       IN shorter \cup { Append(s, x) : s \in { t \in shorter : Len(t) = n - 1 }, x \in S }

\* ------------------------------------------------------------------ parser
\* urllib.parse.unquote on the srcs that occur.
Unquote(src) == IF src = "https%3A//x/r.png" THEN "https://x/r.png" ELSE src

\* urlparse(decoded_src).scheme for the srcs that occur, in lower case.
Scheme(decoded_src) ==
  CASE decoded_src = "https://x/r.png" -> "https"
    [] decoded_src = "HTTP://x/r.png" -> "http"
    [] decoded_src = "data:image/png;base64,AA==" -> "data"
    [] decoded_src = "ftp://x/r.png" -> "ftp"
    [] decoded_src = "https%3A//x/r.png" -> ""
    [] OTHER -> ""

\* Path(src).parent, Path(src).stem and Path(src).suffix for the local
\* srcs that occur.
SrcDir(src) ==
  CASE src = "sub/pic.png" -> "sub"
    [] src = "ftp://x/r.png" -> "ftp:/x"
    [] OTHER -> ""

SrcStem(src) ==
  CASE src \in {"pic.png", "sub/pic.png"} -> "pic"
    [] src = "pic_0001.png" -> "pic_0001"
    [] src = "ftp://x/r.png" -> "r"
    [] OTHER -> ""

SrcExt(src) ==
  IF src \in {"pic.png", "sub/pic.png", "pic_0001.png", "ftp://x/r.png"} THEN ".png" ELSE ""

\* (source_file.parent / local_path).resolve(): the directory of a relative
\* src under the directory of the source file.
JoinDir(d, rel) ==
  CASE rel = "" -> d
    [] d = "in1" /\ rel = "sub" -> "in1/sub"
    [] d = "in2" /\ rel = "sub" -> "in2/sub"
    [] d = "in1" /\ rel = "ftp:/x" -> "in1/ftp:/x"
    [] d = "in2" /\ rel = "ftp:/x" -> "in2/ftp:/x"
    [] OTHER -> "elsewhere"

\* MarkdownIt.render: the HTML of a text, empty exactly when the text is.
MdRender(content) == [text |-> content.text, imgs |-> content.imgs]

EmptyHtml == [text |-> FALSE, imgs |-> <<>>]

\* The scheme test on the src as written, without decoding it.
IsRemoteUndecoded(src) == Scheme(src) \in {"http", "https", "data"}

\* The scheme test of _analyze_image_src: the src is URL-decoded first.
IsRemote(src) == Scheme(Unquote(src)) \in {"http", "https", "data"}

\* MarkdownParser._analyze_image_src
AnalyzeImageSrc(src, source_file, files) ==
  IF IsRemote(src)
  THEN [original_src |-> src, local_path |-> None, is_local |-> FALSE, exists |-> FALSE]
  ELSE LET local_src == Unquote(src)
           local_path == File(JoinDir(source_file.dir, SrcDir(local_src)),
                              SrcStem(local_src), SrcExt(local_src))
       IN [original_src |-> src, local_path |-> local_path,
           is_local |-> TRUE, exists |-> local_path \in files]

\* MarkdownParser._extract_images
ExtractImages(html, source_file, files) ==
  [i \in 1..Len(html.imgs) |-> AnalyzeImageSrc(html.imgs[i], source_file, files)]

RECURSIVE MissingWarnings(_)
\* The "Image not found" warnings of a list of local images.
MissingWarnings(imgs) ==
  IF imgs = <<>> THEN <<>>
  ELSE (IF ~Head(imgs).exists
        THEN <<[msg |-> "Image not found", arg |-> Head(imgs).original_src]>>
        ELSE <<>>) \o MissingWarnings(Tail(imgs))

\* A filter that lets every image through.
LocalImagesUnfiltered(images) == images

\* [img for img in result.images if img.is_local]
LocalImages(images) == SelectSeqBy(images, { im \in Range(images) : im.is_local })

\* MarkdownParser.parse
Parse(content, source_file, files, faults) ==
  LET Result(html, images, local_images) ==
        [html |-> html, images |-> images, local_images |-> local_images,
         warnings |-> MissingWarnings(local_images), source_file |-> source_file]
      Extracted(html, images) == Result(html, images, LocalImages(images))
      Rendered(html) == Extracted(html, ExtractImages(html, source_file, files))
  IN IF "transform" \in faults
     THEN [html |-> EmptyHtml, images |-> <<>>, local_images |-> <<>>,
           warnings |-> <<[msg |-> "Markdown parsing error", arg |-> source_file]>>,
           source_file |-> source_file]
     ELSE Rendered(MdRender(content))

\* MarkdownParser.parse_file
ParseFile(file_path, files, faults) ==
  IF file_path \notin files
  THEN [html |-> EmptyHtml, images |-> <<>>, local_images |-> <<>>,
        warnings |-> <<[msg |-> "File not found", arg |-> file_path]>>,
        source_file |-> file_path]
  ELSE IF "read" \in faults
  THEN [html |-> EmptyHtml, images |-> <<>>, local_images |-> <<>>,
        warnings |-> <<[msg |-> "Failed to read file", arg |-> file_path]>>,
        source_file |-> file_path]
  ELSE Parse(Content(file_path), file_path, files, faults)

\* ---------------------------------------------------------------- renderer
\* The first 8 hex digits of the MD5 of a source image's bytes.
ContentHash(p) ==
  CASE p = File("in1", "pic", ".png") -> "0a1b2c3d"
    [] p = File("in1/sub", "pic", ".png") -> "5e6f7a8b"
    [] OTHER -> "ffffffff"

\* f"{n:04d}" for the occurrence counters that occur.
Fmt04(n) ==
  CASE n = 1 -> "0001" [] n = 2 -> "0002" [] n = 3 -> "0003" [] OTHER -> "0004"

\* f"placeholder_{Path(src).stem or 'missing'}"
PlaceholderStem(src) ==
  CASE SrcStem(src) = "pic" -> "placeholder_pic"
    [] SrcStem(src) = "pic_0001" -> "placeholder_pic_0001"
    [] SrcStem(src) = "r" -> "placeholder_r"
    [] OTHER -> "placeholder_missing"

\* HtmlRenderer._get_unique_filename: the name handed out and the table after.
GetUniqueFilename(filename, source_path, used_names) ==
  IF filename \notin DOMAIN used_names
  THEN [name |-> filename,
        used |-> [f \in DOMAIN used_names \cup {filename} |->
                    IF f = filename THEN 1 ELSE used_names[f]]]
  ELSE LET file_hash == IF source_path # None THEN ContentHash(source_path)
                        ELSE Fmt04(used_names[filename])
       IN [name |-> Name(filename.stem, filename.ext, file_hash),
           used |-> [used_names EXCEPT ![filename] = @ + 1]]

\* A mapping that keeps the first value stored under a key.
PutKeepsFirst(mapping, key, value) ==
  [k \in DOMAIN mapping \cup {key} |-> IF k \in DOMAIN mapping THEN mapping[k] ELSE value]

\* path_mapping[key] = value
Put(mapping, key, value) ==
  [k \in DOMAIN mapping \cup {key} |-> IF k = key THEN value ELSE mapping[k]]

\* HtmlRenderer._process_image with _copy_image and _generate_placeholder,
\* applied to the render state st = [files, used, mapping, copied, warnings].
ProcessImage(img_info, out, base, st, faults) ==
  LET copying == img_info.exists /\ img_info.local_path # None
      filename == IF copying
                  THEN Name(img_info.local_path.stem, img_info.local_path.ext, "")
                  ELSE Name(PlaceholderStem(img_info.original_src), ".png", "")
      no_space == "asset_space" \in faults /\ st.copied # <<>>
      Named(u) ==
        IF copying /\ ("copy" \in faults \/ no_space)
        THEN [st EXCEPT !.used = u.used,
                        !.warnings = Append(@, [msg |-> "Failed to copy image",
                                                arg |-> img_info.local_path])]
        ELSE IF ~copying /\ ("save" \in faults \/ no_space)
        THEN [st EXCEPT !.used = u.used,
                        !.warnings = Append(@, [msg |-> "Failed to generate placeholder",
                                                arg |-> img_info.original_src])]
        ELSE [st EXCEPT !.used = u.used,
                        !.files = @ \cup {AssetFile(out, base, u.name)},
                        !.copied = Append(@, AssetFile(out, base, u.name)),
                        !.mapping = Put(@, img_info.original_src, u.name)]
  IN Named(GetUniqueFilename(filename, IF copying THEN img_info.local_path ELSE None,
                             st.used))

RECURSIVE ProcessImages(_, _, _, _, _)
\* The loop over parse_result.local_images of HtmlRenderer.render.
ProcessImages(imgs, out, base, st, faults) ==
  IF imgs = <<>> THEN st
  ELSE ProcessImages(Tail(imgs), out, base,
                     ProcessImage(Head(imgs), out, base, st, faults), faults)

\* MarkdownParser.update_image_paths: every <img> whose src is a key of the
\* mapping points at "./assets_<base>/<mapped name>", the others keep their src.
UpdateImagePaths(html, base, mapping) ==
  [text |-> html.text,
   imgs |-> [i \in 1..Len(html.imgs) |->
               IF html.imgs[i] \in DOMAIN mapping
               THEN [original |-> html.imgs[i], rewritten |-> TRUE,
                     base |-> base, name |-> mapping[html.imgs[i]]]
               ELSE [original |-> html.imgs[i], rewritten |-> FALSE]]]

\* A render that makes the asset directory whenever the document has images.
HasLocalImagesAnyImage(parse_result) == parse_result.images # <<>>

\* if parse_result.local_images:
HasLocalImages(parse_result) == parse_result.local_images # <<>>

\* A merge that puts the warnings of the parse in front.
MergeWarningsParseFirst(warnings, parse_warnings) == parse_warnings \o warnings

\* result.warnings.extend(parse_result.warnings), result.warnings holding
\* what the render call itself has appended so far.
MergeWarnings(warnings, parse_warnings) == warnings \o parse_warnings

\* A used-filename table that lives on in the renderer from one render call
\* to the next.
UsedNamesKept(left_over) == left_over

\* used_names: dict[str, int] = {} -- the table a render call starts with,
\* whatever table left_over an earlier call of the renderer ended with.
NewUsedNames(left_over) == << >>

\* HtmlRenderer.render: the RenderResult, the filesystem after, whether an
\* exception left the call (a mkdir that failed), and the used-filename table
\* the call ended with. left_over is the table an earlier call of the same
\* renderer ended with, << >> for a new renderer.
Render(parse_result, output_dir, files, faults, left_over) ==
  LET base_name == parse_result.source_file.stem
      assets_dir == AssetsDir(output_dir, base_name)
      has_local == HasLocalImages(parse_result)
      files1 == files \cup {Dir(output_dir)}
      st0 == [files |-> IF has_local THEN files1 \cup {assets_dir} ELSE files1,
              used |-> NewUsedNames(left_over), mapping |-> << >>, copied |-> <<>>,
              warnings |-> <<>>]
      output_file == File(output_dir, base_name, ".html")
      wrote == "write" \notin faults
      Assembled(st) ==
        [raised |-> FALSE, used |-> st.used,
         files |-> IF wrote THEN st.files \cup {output_file} ELSE st.files,
         result |-> [success |-> wrote,
                     html |-> UpdateImagePaths(parse_result.html, base_name, st.mapping),
                     output_file |-> IF wrote THEN output_file ELSE None,
                     assets_dir |-> IF has_local THEN assets_dir ELSE None,
                     copied_images |-> st.copied,
                     warnings |-> MergeWarnings(
                        st.warnings
                          \o (IF wrote THEN <<>>
                              ELSE <<[msg |-> "Failed to write output file",
                                      arg |-> output_file]>>),
                        parse_result.warnings)]]
  IN IF "mkdir" \in faults /\ (Dir(output_dir) \notin files \/ (has_local /\ assets_dir \notin files))
     THEN [raised |-> TRUE, used |-> left_over, files |-> files,
           result |-> [success |-> FALSE, html |-> EmptyHtml, output_file |-> None,
                       assets_dir |-> None, copied_images |-> <<>>, warnings |-> <<>>]]
     ELSE Assembled(ProcessImages(parse_result.local_images, output_dir, base_name,
                                  st0, faults))

\* ------------------------------------------------------------------ packer
\* Timestamps datetime.now() can yield while a batch archive is named.
Timestamps == {"t1", "t2"}

\* f"Batch_Output_{timestamp}"
BatchStem(ts) == IF ts = "t1" THEN "Batch_Output_t1" ELSE "Batch_Output_t2"

NoError == [msg |-> "none"]

\* The archive entry of an HTML file: its file name at the archive root.
HtmlEntry(html_file) ==
  [root |-> TRUE, base |-> "", name |-> Name(html_file.stem, html_file.ext, "")]

\* assets_dir.rglob("*"): every file and directory beneath an asset directory.
Under(assets_dir, files) ==
  { f \in files : /\ f.kind \in {"asset", "assetsub"}
                  /\ f.dir = assets_dir.dir
                  /\ f.base = assets_dir.base }

\* The walk without the is_file() test: directories count as well.
FilesUnderWithDirs(assets_dir, files) == Under(assets_dir, files)

\* The paths beneath an asset directory that pass asset_file.is_file().
FilesUnder(assets_dir, files) == { f \in Under(assets_dir, files) : f.kind = "asset" }

\* The archive entries "<assets_dir.name>/<relative path>" of an asset directory.
AssetEntries(assets_dir, files) ==
  IF assets_dir # None /\ assets_dir \in files
  THEN SetToSeq({ [root |-> FALSE, base |-> f.base,
                   name |-> IF f.kind = "asset" THEN f.name ELSE Name(f.rel, "", "")] :
                  f \in FilesUnder(assets_dir, files) })
  ELSE <<>>

\* zips with the archive at zip_path (re)written to hold entries.
WriteZip(zips, zip_path, entries) ==
  [p \in DOMAIN zips \cup {zip_path} |-> IF p = zip_path THEN entries ELSE zips[p]]

\* A pack_individual that never looks for the HTML file.
HtmlMissingNever(html_file, files) == FALSE

\* if not html_file.exists():
HtmlMissing(html_file, files) == html_file \notin files

\* ZipPacker.pack_individual: the PackResult and the filesystem after.
PackIndividual(html_file, assets_dir, files, zips, faults) ==
  LET zip_path == File(html_file.dir, html_file.stem, ".zip")
      packed == <<HtmlEntry(html_file)>> \o AssetEntries(assets_dir, files)
  IN IF HtmlMissing(html_file, files)
     THEN [files |-> files, zips |-> zips,
           result |-> [success |-> FALSE, zip_file |-> None, files_packed |-> <<>>,
                       error |-> [msg |-> "HTML file not found", arg |-> html_file]]]
     ELSE IF "zip_open" \in faults
     THEN [files |-> files, zips |-> zips,
           result |-> [success |-> FALSE, zip_file |-> None, files_packed |-> <<>>,
                       error |-> [msg |-> "OSError", arg |-> zip_path]]]
     ELSE IF "zip_write" \in faults
     THEN [files |-> files \cup {zip_path}, zips |-> WriteZip(zips, zip_path, <<>>),
           result |-> [success |-> FALSE, zip_file |-> None, files_packed |-> <<>>,
                       error |-> [msg |-> "OSError", arg |-> html_file]]]
     ELSE [files |-> files \cup {zip_path}, zips |-> WriteZip(zips, zip_path, packed),
           result |-> [success |-> TRUE, zip_file |-> zip_path, files_packed |-> packed,
                       error |-> NoError]]

\* An item whose missing HTML file is passed over but whose assets are kept.
ItemEntriesKeepsAssets(item, files) ==
  IF item[1] \notin files THEN AssetEntries(item[2], files)
  ELSE <<HtmlEntry(item[1])>> \o AssetEntries(item[2], files)

\* The body of pack_batch's loop for one (html_file, assets_dir) item: a
\* missing HTML file skips the whole item.
ItemEntries(item, files) ==
  IF item[1] \notin files THEN <<>>
  ELSE <<HtmlEntry(item[1])>> \o AssetEntries(item[2], files)

RECURSIVE BatchEntries(_, _)
\* The entries pack_batch's loop adds for its items, in order.
BatchEntries(items, files) ==
  IF items = <<>> THEN <<>>
  ELSE ItemEntries(Head(items), files) \o BatchEntries(Tail(items), files)

\* A pack_batch that takes an empty list like any other.
NoItemsNever(items) == FALSE

\* if not items:
NoItems(items) == items = <<>>

\* ZipPacker.pack_batch with the default archive name: the PackResult, the
\* filesystem after, and whether an exception left the call (the mkdir of
\* the output directory, which is outside the try).
PackBatch(output_dir, items, ts, files, zips, faults) ==
  LET zip_path == File(output_dir, BatchStem(ts), ".zip")
      files1 == files \cup {Dir(output_dir)}
      packed == BatchEntries(items, files)
      failed(error) == [success |-> FALSE, zip_file |-> None, files_packed |-> <<>>,
                        error |-> error]
  IN IF NoItems(items)
     THEN [raised |-> FALSE, files |-> files, zips |-> zips,
           result |-> failed([msg |-> "No items to pack"])]
     ELSE IF "mkdir" \in faults /\ Dir(output_dir) \notin files
     THEN [raised |-> TRUE, files |-> files, zips |-> zips,
           result |-> failed([msg |-> "OSError", arg |-> Dir(output_dir)])]
     ELSE IF "zip_open" \in faults
     THEN [raised |-> FALSE, files |-> files1, zips |-> zips,
           result |-> failed([msg |-> "OSError", arg |-> zip_path])]
     ELSE IF "zip_write" \in faults /\ packed # <<>>
     THEN [raised |-> FALSE, files |-> files1 \cup {zip_path},
           zips |-> WriteZip(zips, zip_path, <<>>),
           result |-> failed([msg |-> "OSError", arg |-> zip_path])]
     ELSE [raised |-> FALSE, files |-> files1 \cup {zip_path},
           zips |-> WriteZip(zips, zip_path, packed),
           result |-> [success |-> TRUE, zip_file |-> zip_path, files_packed |-> packed,
                       error |-> NoError]]

\* ZipPacker.cleanup_after_zip: whether it succeeded and the filesystem after.
CleanupAfterZip(html_file, assets_dir, files, faults) ==
  LET has_assets == assets_dir # None /\ assets_dir \in files
  IN IF html_file \in files /\ "unlink" \in faults
     THEN [ok |-> FALSE, files |-> files]
     ELSE IF has_assets /\ "rmtree" \in faults
     THEN [ok |-> FALSE, files |-> files \ {html_file}]
     ELSE [ok |-> TRUE,
           files |-> IF has_assets
                     THEN (files \ {html_file, assets_dir}) \ Under(assets_dir, files)
                     ELSE files \ {html_file}]

\* --------------------------------------------------------------- converter
\* output_dir = None
NoDir == ""

OutputDirs == {NoDir, "out"}

\* Output directories a caller hands to convert_batch.
BatchDirs == {"out", "in1"}

\* ConversionResult(input_file=input_file)
NewResult(input_file) ==
  [input_file |-> input_file, output_file |-> None, assets_dir |-> None,
   zip_file |-> None, success |-> TRUE, warnings |-> <<>>, error |-> NoError]

\* The suffix check without .lower().
ValidSuffixCaseSensitive(input_file) == input_file.ext \in {".md", ".markdown"}

\* input_file.suffix.lower() in (".md", ".markdown")
ValidSuffix(input_file) == Lower(input_file.ext) \in {".md", ".markdown"}

\* Whether the name ExportMode.STANDALONE resolves.
HasStandaloneAttr == "STANDALONE" \in ExportModeAttrs

\* Whether render() takes the keyword standalone=...
RenderTakesStandalone == "standalone" \in RenderParams

\* The validation at the head of convert_file: the error, or NoError.
Validate(input_file, files) ==
  IF input_file \notin files THEN [msg |-> "File not found", arg |-> input_file]
  ELSE IF ~ValidSuffix(input_file) THEN [msg |-> "Not a Markdown file", arg |-> input_file]
  ELSE NoError

\* Step 3 of convert_file, reached after a successful render.
PackStep(result, render_result, export_mode, cleanup_after_zip, files, zips, faults) ==
  LET Cleaned(pk, cl) ==
        [result |-> [result EXCEPT !.zip_file = pk.result.zip_file,
                                   !.output_file = None, !.assets_dir = None],
         files |-> cl.files, zips |-> pk.zips, steps |-> <<"pack", "cleanup">>]
      Packed(pk) ==
        IF ~pk.result.success
        THEN [result |-> [result EXCEPT !.warnings =
                            Append(@, [msg |-> "ZIP creation failed", arg |-> pk.result.error])],
              files |-> pk.files, zips |-> pk.zips, steps |-> <<"pack">>]
        ELSE IF ~cleanup_after_zip
        THEN [result |-> [result EXCEPT !.zip_file = pk.result.zip_file],
              files |-> pk.files, zips |-> pk.zips, steps |-> <<"pack">>]
        ELSE Cleaned(pk, CleanupAfterZip(render_result.output_file,
                                         render_result.assets_dir, pk.files, faults))
  IN IF export_mode # INDIVIDUAL_ZIP
     THEN [result |-> result, files |-> files, zips |-> zips, steps |-> <<>>]
     ELSE Packed(PackIndividual(render_result.output_file, render_result.assets_dir,
                                files, zips, faults))

\* An except branch that marks the result failed and drops the message.
CaughtWithoutError(result, error) == [result EXCEPT !.success = FALSE]

\* except Exception as e: result.success = False; result.error = str(e)
Caught(result, error) == [result EXCEPT !.success = FALSE, !.error = error]

\* Step 2 of convert_file and what follows it, reached with a non-empty parse.
RenderStep(result, parse_result, out, export_mode, cleanup_after_zip, files, zips, faults) ==
  LET After(steps, r) == [r EXCEPT !.steps = steps \o @]
      Taken(rd, rendered) ==
        IF rd.raised
        THEN [result |-> Caught(result, [msg |-> "OSError", arg |-> Dir(out)]),
              files |-> rd.files, zips |-> zips, steps |-> <<"render">>]
        ELSE IF ~rd.result.success
        THEN [result |-> [rendered EXCEPT !.success = FALSE,
                                          !.error = [msg |-> "Failed to render HTML"]],
              files |-> rd.files, zips |-> zips, steps |-> <<"render">>]
        ELSE After(<<"render">>,
                   PackStep(rendered, rd.result, export_mode, cleanup_after_zip,
                            rd.files, zips, faults))
      Rendered(rd) ==
        Taken(rd, [result EXCEPT !.output_file = rd.result.output_file,
                                 !.assets_dir = rd.result.assets_dir,
                                 !.warnings = @ \o rd.result.warnings])
  IN Rendered(Render(parse_result, out, files, faults, << >>))

\* The failed result without the parse warnings.
ParseFailedDropsWarnings(result, parse_result) ==
  [result EXCEPT !.success = FALSE, !.error = [msg |-> "Failed to parse Markdown"]]

\* The result convert_file returns when parse_result.html is empty.
ParseFailed(result, parse_result) ==
  [result EXCEPT !.success = FALSE,
                 !.error = [msg |-> "Failed to parse Markdown"],
                 !.warnings = @ \o parse_result.warnings]

\* The try block of convert_file.
TryBlock(result, input_file, out, export_mode, cleanup_after_zip, files, zips, faults) ==
  LET After(steps, r) == [r EXCEPT !.steps = steps \o @]
      Parsed(parse_result) ==
        IF ~parse_result.html.text
        THEN [result |-> ParseFailed(result, parse_result),
              files |-> files, zips |-> zips, steps |-> <<"parse">>]
        ELSE IF ~HasStandaloneAttr
        THEN [result |-> Caught(result, [msg |-> "AttributeError", arg |-> "STANDALONE"]),
              files |-> files, zips |-> zips, steps |-> <<"parse">>]
        ELSE IF ~RenderTakesStandalone
        THEN [result |-> Caught(result, [msg |-> "TypeError", arg |-> "standalone"]),
              files |-> files, zips |-> zips, steps |-> <<"parse">>]
        ELSE After(<<"parse">>,
                   RenderStep(result, parse_result, out, export_mode,
                              cleanup_after_zip, files, zips, faults))
  IN Parsed(ParseFile(input_file, files, faults))

\* Converter.convert_file: the ConversionResult, the filesystem and the
\* archives after it, and the pipeline steps it ran, in order.
ConvertFile(input_file, output_dir, export_mode, cleanup_after_zip, files, zips, faults) ==
  LET After(steps, r) == [r EXCEPT !.steps = steps \o @]
      Checked(invalid) ==
        IF invalid # NoError
        THEN [result |-> [NewResult(input_file) EXCEPT !.success = FALSE, !.error = invalid],
              files |-> files, zips |-> zips, steps |-> <<"validate">>]
        ELSE After(<<"validate">>,
                   TryBlock(NewResult(input_file), input_file,
                            IF output_dir = NoDir THEN input_file.dir ELSE output_dir,
                            export_mode, cleanup_after_zip, files, zips, faults))
  IN Checked(Validate(input_file, files))

\* The per-file export mode convert_batch derives from the batch's mode.
FileExportMode(export_mode) ==
  IF export_mode = BATCH_ZIP THEN DEFAULT
  ELSE IF export_mode = STANDALONE THEN STANDALONE
  ELSE export_mode

\* Whether deriving the per-file mode evaluates ExportMode.STANDALONE and
\* fails on it: the elif is reached for every mode but batch-zip.
ModeLookupRaises(export_mode) == export_mode # BATCH_ZIP /\ ~HasStandaloneAttr

\* The report with the loop index i in place of i + 1.
ItemProgressOffByOne(i, n) == [current |-> i, total |-> n, msg |-> "Converting"]

\* The report convert_batch makes before converting input number i + 1 of n.
ItemProgress(i, n) == [current |-> i + 1, total |-> n, msg |-> "Converting"]

\* The bookkeeping without the else branch that counts a failure.
TallyForgetsFailed(b, result) ==
  [b EXCEPT !.results = Append(@, result),
            !.successful = IF result.success THEN @ + 1 ELSE @,
            !.zip_items = IF result.success /\ b.export_mode = BATCH_ZIP
                          THEN Append(@, <<result.output_file, result.assets_dir>>)
                          ELSE @]

\* The bookkeeping with every result queued for the batch archive, failed
\* ones too.
TallyQueuesAll(b, result) ==
  [b EXCEPT !.results = Append(@, result),
            !.successful = IF result.success THEN @ + 1 ELSE @,
            !.failed = IF result.success THEN @ ELSE @ + 1,
            !.zip_items = IF b.export_mode = BATCH_ZIP
                          THEN Append(@, <<result.output_file, result.assets_dir>>)
                          ELSE @]

\* The bookkeeping of convert_batch's loop body for one result: the result
\* is appended and counted, and queued for the batch archive when it
\* succeeded in batch-zip mode.
Tally(b, result) ==
  [b EXCEPT !.results = Append(@, result),
            !.successful = IF result.success THEN @ + 1 ELSE @,
            !.failed = IF result.success THEN @ ELSE @ + 1,
            !.zip_items = IF result.success /\ b.export_mode = BATCH_ZIP
                          THEN Append(@, <<result.output_file, result.assets_dir>>)
                          ELSE @]

\* A loop that breaks at the first failed result.
NextIndexStopsOnFailure(i, n, result) == IF result.success THEN i + 1 ELSE n

\* The index of the input the loop turns to after a result: the for loop
\* goes on to the next input whatever the result.
NextIndex(i, n, result) == i + 1

\* A cleanup that runs whether or not the batch archive was created.
CleansUpWhateverThePack(packed, cleanup_after_zip) == cleanup_after_zip

\* if pack_result.success: ... if cleanup_after_zip: -- whether convert_batch
\* runs its cleanup loop, packed telling that pack_batch ran and succeeded.
CleansUp(packed, cleanup_after_zip) == packed /\ cleanup_after_zip

RECURSIVE CleanupAll(_, _, _)
\* The cleanup loop over zip_items after a successful batch archive.
CleanupAll(items, files, faults) ==
  IF items = <<>> THEN files
  ELSE CleanupAll(Tail(items),
                  CleanupAfterZip(Head(items)[1], Head(items)[2], files, faults).files,
                  faults)

\* ------------------------------------------------------------------- state
VARIABLES
  files,    \* the paths that exist on disk
  zips,     \* the entry names of every archive on disk
  faults,   \* the operations that fail in this session
  cf,       \* the caller's last call, if convert_file: its arguments and result
  cb,       \* the caller's last call, if convert_batch: its locals and result
  api,      \* the caller's last call, if made on a component: arguments and result
  ncalls    \* calls made so far

vars == <<files, zips, faults, cf, cb, api, ncalls>>

\* The archives on disk before the first call: pub/z.zip holds z.html.
InitialZips ==
  [p \in {File("pub", "z", ".zip")} |-> <<HtmlEntry(File("pub", "z", ".html"))>>]

Init ==
  /\ files = InitialFiles
  /\ zips = InitialZips
  /\ faults \in FaultSets
  /\ cf = [called |-> FALSE]
  /\ cb = [pc |-> "idle"]
  /\ api = [op |-> "none"]
  /\ ncalls = 0

\* The caller holds no result and no call is executing.
Idle == ~cf.called /\ cb.pc = "idle"

\* A caller runs Converter.convert_file to completion.
CallConvertFile ==
  /\ Idle
  /\ ncalls < MaxCalls
  /\ \E input_file \in Sources, output_dir \in OutputDirs,
        export_mode \in Modes, cleanup \in BOOLEAN :
       \E r \in {ConvertFile(input_file, output_dir, export_mode, cleanup, files, zips, faults)} :
          /\ cf' = [called |-> TRUE, input_file |-> input_file, output_dir |-> output_dir,
                    export_mode |-> export_mode, cleanup |-> cleanup, before |-> files,
                    result |-> r.result, steps |-> r.steps]
          /\ files' = r.files
          /\ zips' = r.zips
  /\ ncalls' = ncalls + 1
  /\ UNCHANGED <<faults, cb, api>>

\* convert_batch up to its loop: the BatchResult is created and the output
\* directory made; a mkdir that fails leaves the call as an exception.
BatchStart ==
  /\ Idle
  /\ ncalls < MaxCalls
  /\ \E input_files \in SeqsUpTo(Sources, MaxBatch), output_dir \in BatchDirs,
        export_mode \in Modes, cleanup \in BOOLEAN :
       LET raises == "mkdir" \in faults /\ Dir(output_dir) \notin files
       IN /\ cb' = [pc |-> IF raises THEN "raised" ELSE "loop",
                    input_files |-> input_files, output_dir |-> output_dir,
                    export_mode |-> export_mode, cleanup |-> cleanup,
                    i |-> 0, results |-> <<>>, steps |-> <<>>,
                    total |-> Len(input_files), successful |-> 0, failed |-> 0,
                    zip_items |-> <<>>, batch_zip |-> None,
                    progress |-> <<>>, pack_calls |-> <<>>, cleaned |-> FALSE]
          /\ files' = IF raises THEN files ELSE files \cup {Dir(output_dir)}
  /\ ncalls' = ncalls + 1
  /\ UNCHANGED <<zips, faults, cf, api>>

\* One iteration of convert_batch's loop.
BatchItem ==
  /\ cb.pc = "loop"
  /\ cb.i < Len(cb.input_files)
  /\ LET input_file == cb.input_files[cb.i + 1]
         reported == Append(cb.progress, ItemProgress(cb.i, Len(cb.input_files)))
     IN IF ModeLookupRaises(cb.export_mode)
        THEN /\ cb' = [cb EXCEPT !.pc = "raised", !.progress = reported]
             /\ UNCHANGED <<files, zips>>
        ELSE \E r \in {ConvertFile(input_file, cb.output_dir, FileExportMode(cb.export_mode),
                                    cb.cleanup /\ cb.export_mode # BATCH_ZIP,
                                    files, zips, faults)} :
             /\ cb' = [Tally(cb, r.result) EXCEPT
                         !.progress = reported,
                         !.steps = Append(@, r.steps),
                         !.i = NextIndex(cb.i, Len(cb.input_files), r.result)]
             /\ files' = r.files
             /\ zips' = r.zips
  /\ UNCHANGED <<faults, cf, api, ncalls>>

\* The tail of convert_batch: the batch archive, its cleanup, the last
\* progress report and the return.
BatchFinish ==
  /\ cb.pc = "loop"
  /\ cb.i = Len(cb.input_files)
  /\ \E ts \in Timestamps :
       LET n == Len(cb.input_files)
           packing == cb.export_mode = BATCH_ZIP /\ cb.zip_items # <<>>
       IN \E pk \in {PackBatch(cb.output_dir, cb.zip_items, ts, files, zips, faults)} :
          LET packed == packing /\ pk.result.success
              cleaning == CleansUp(packed, cb.cleanup)
          IN
          /\ cb' = [cb EXCEPT
                      !.pc = "returned",
                      !.progress =
                         (IF packing
                          THEN Append(@, [current |-> n, total |-> n, msg |-> "Creating batch ZIP..."])
                          ELSE @)
                         \o <<[current |-> n, total |-> n, msg |-> "Complete!"]>>,
                      !.pack_calls = IF packing
                                     THEN Append(@, [at |-> Len(cb.results), items |-> cb.zip_items])
                                     ELSE @,
                      !.batch_zip = IF packed THEN pk.result.zip_file ELSE @,
                      !.cleaned = cleaning]
          /\ files' = IF cleaning THEN CleanupAll(cb.zip_items, pk.files, faults)
                      ELSE IF packing THEN pk.files ELSE files
          /\ zips' = IF packing THEN pk.zips ELSE zips
  /\ UNCHANGED <<faults, cf, api, ncalls>>

\* The caller is done with the result of its last call (or has handled the
\* exception that left it) and is ready to make the next one.
DropResult ==
  /\ cf.called \/ cb.pc \in {"returned", "raised"}
  /\ cf' = [called |-> FALSE]
  /\ cb' = [pc |-> "idle"]
  /\ UNCHANGED <<files, zips, faults, api, ncalls>>

Next == CallConvertFile \/ BatchStart \/ BatchItem \/ BatchFinish \/ DropResult

Spec == Init /\ [][Next]_vars

\* ------------------------------------------- the components called directly
\* The documents a caller hands to the renderer: no text at all, or text
\* with up to MaxImages images, local ones with or without a remote one in
\* front.
Documents ==
  {[text |-> FALSE, imgs |-> <<>>]}
    \cup { [text |-> TRUE, imgs |-> imgs] : imgs \in SeqsUpTo(LocalSrcs, MaxImages) }
    \cup { [text |-> TRUE, imgs |-> <<RemoteSrc>> \o imgs] :
             imgs \in SeqsUpTo(LocalSrcs, MaxImages - 1) }

\* The documents a caller hands to the parser: no text at all, text with up
\* to MaxImages images that are the local pic.png or the remote one in any
\* order, and text with one image of any other src.
ParseDocuments ==
  {[text |-> FALSE, imgs |-> <<>>]}
    \cup { [text |-> TRUE, imgs |-> imgs] :
             imgs \in SeqsUpTo({"pic.png", RemoteSrc}, MaxImages) }
    \cup { [text |-> TRUE, imgs |-> <<src>>] : src \in SchemeSrcs \cup LocalSrcs }

\* The source_file a caller names: next to the images, or where none is.
ParseSources == {File("in1", "a", ".md"), File("in2", "b", ".md")}

\* The output_dir a caller hands to render: a directory yet to be made.
RenderDirs == {"out"}

\* The output_dir a caller hands to ZipPacker: a directory yet to be made.
PackDirs == {"out"}

\* The html_file and assets_dir a caller hands to the packer.
PackHtmlFiles ==
  {File("pub", "x", ".html"), File("pub", "y", ".html"), File("pub", "z", ".html")}

PackAssetDirs == {None, AssetsDir("pub", "x"), AssetsDir("pub", "y")}

\* The (html_file, assets_dir) items a caller hands to pack_batch.
PackItems ==
  { <<File("pub", "x", ".html"), AssetsDir("pub", "x")>>,
    <<File("pub", "y", ".html"), None>>,
    <<File("pub", "z", ".html"), AssetsDir("pub", "x")>> }

\* No call on a component is pending and the session has calls left.
ApiIdle == api.op = "none" /\ ncalls < MaxApiCalls

\* A caller runs MarkdownParser.parse.
CallParse ==
  /\ ApiIdle
  /\ \E content \in ParseDocuments, source_file \in ParseSources :
       \E r \in {Parse(content, source_file, files, faults)} :
          api' = [op |-> "parse", content |-> content, source_file |-> source_file,
                  before |-> files, result |-> r]
  /\ ncalls' = ncalls + 1
  /\ UNCHANGED <<files, zips, faults, cf, cb>>

\* A caller runs HtmlRenderer.render on the result of a parse.
CallRender ==
  /\ ApiIdle
  /\ \E content \in Documents, source_file \in ParseSources, output_dir \in RenderDirs :
       \E pr \in {Parse(content, source_file, files, faults)} :
          \E r \in {Render(pr, output_dir, files, faults, << >>)} :
             /\ api' = [op |-> "render", parse_result |-> pr, output_dir |-> output_dir,
                        before |-> files, raised |-> r.raised, result |-> r.result,
                        used |-> r.used, between |-> FALSE, again |-> FALSE]
             /\ files' = r.files
  /\ ncalls' = ncalls + 1
  /\ UNCHANGED <<zips, faults, cf, cb>>

\* Another document a caller may render between two renders of one
\* document: pic.png twice, in a source file named a like in1/a.md but in
\* another directory, where pic.png is missing.
OtherDocument == [text |-> TRUE, imgs |-> <<"pic.png", "pic.png">>]

OtherSource == File("in2", "a", ".Markdown")

\* A caller that holds the result of a render renders another document
\* into the same directory, with the same renderer or with a new one.
CallRenderBetween ==
  /\ api.op = "render"
  /\ ~api.raised /\ ~api.between /\ ~api.again
  /\ \E same \in BOOLEAN :
       \E pr \in {Parse(OtherDocument, OtherSource, files, faults)} :
          \E r \in {Render(pr, api.output_dir, files, faults,
                            IF same THEN api.used ELSE << >>)} :
             /\ api' = [op |-> "render", parse_result |-> api.parse_result,
                        output_dir |-> api.output_dir, before |-> api.before,
                        raised |-> api.raised, result |-> api.result, used |-> r.used,
                        between |-> TRUE, again |-> FALSE,
                        other_source |-> pr.source_file, other |-> r.result]
             /\ files' = r.files
  /\ UNCHANGED <<zips, faults, cf, cb, ncalls>>

\* A caller that holds the result of a render renders the same document
\* again into the same directory, with the same renderer or with a new one.
CallRenderAgain ==
  /\ api.op = "render"
  /\ ~api.raised /\ ~api.again
  /\ \E same \in BOOLEAN :
       \E r \in {Render(api.parse_result, api.output_dir, files, faults,
                         IF same THEN api.used ELSE << >>)} :
          /\ api' = [op |-> "render", parse_result |-> api.parse_result,
                     output_dir |-> api.output_dir, before |-> api.before,
                     raised |-> api.raised, result |-> api.result, used |-> r.used,
                     between |-> api.between, again |-> TRUE,
                     other_source |-> IF api.between THEN api.other_source ELSE None,
                     other |-> IF api.between THEN api.other ELSE api.result,
                     second_raised |-> r.raised, second |-> r.result]
          /\ files' = r.files
  /\ UNCHANGED <<zips, faults, cf, cb, ncalls>>

\* A caller runs ZipPacker.pack_individual.
CallPackIndividual ==
  /\ ApiIdle
  /\ \E html_file \in PackHtmlFiles, assets_dir \in PackAssetDirs :
       \E r \in {PackIndividual(html_file, assets_dir, files, zips, faults)} :
          /\ api' = [op |-> "pack_individual", html_file |-> html_file,
                     assets_dir |-> assets_dir, before |-> files, zips_before |-> zips,
                     result |-> r.result]
          /\ files' = r.files
          /\ zips' = r.zips
  /\ ncalls' = ncalls + 1
  /\ UNCHANGED <<faults, cf, cb>>

\* A caller runs ZipPacker(output_dir).pack_batch with the default name.
CallPackBatch ==
  /\ ApiIdle
  /\ \E output_dir \in PackDirs, items \in SeqsUpTo(PackItems, MaxBatch),
        ts \in Timestamps :
       \E r \in {PackBatch(output_dir, items, ts, files, zips, faults)} :
          /\ api' = [op |-> "pack_batch", output_dir |-> output_dir, items |-> items,
                     before |-> files, zips_before |-> zips, raised |-> r.raised,
                     result |-> r.result]
          /\ files' = r.files
          /\ zips' = r.zips
  /\ ncalls' = ncalls + 1
  /\ UNCHANGED <<faults, cf, cb>>

\* A caller runs ZipPacker.cleanup_after_zip.
CallCleanupAfterZip ==
  /\ ApiIdle
  /\ \E html_file \in PackHtmlFiles, assets_dir \in PackAssetDirs :
       \E r \in {CleanupAfterZip(html_file, assets_dir, files, faults)} :
          /\ api' = [op |-> "cleanup_after_zip", html_file |-> html_file,
                     assets_dir |-> assets_dir, before |-> files, zips_before |-> zips,
                     result |-> r.ok]
          /\ files' = r.files
  /\ ncalls' = ncalls + 1
  /\ UNCHANGED <<zips, faults, cf, cb>>

\* The caller is done with the result of its last call on a component.
ApiDropResult ==
  /\ api.op # "none"
  /\ api' = [op |-> "none"]
  /\ UNCHANGED <<files, zips, faults, cf, cb, ncalls>>

ApiNext ==
  \/ CallParse \/ CallRender
  \/ CallPackIndividual \/ CallPackBatch \/ CallCleanupAfterZip
  \/ ApiDropResult

\* A session of calls on the parser, the renderer and the packer.
ApiSpec == Init /\ [][ApiNext]_vars

RenderNext == CallRender \/ CallRenderBetween \/ CallRenderAgain \/ ApiDropResult

\* A session of calls on renderers, with documents rendered more than once.
RenderSpec == Init /\ [][RenderNext]_vars

\* ------------------------------------------------------------------ claims
\* The suffixes that are .md or .markdown up to case.
MarkdownSuffixes == {".md", ".MD", ".markdown", ".Markdown"}

\* A source a conversion can succeed on: on disk, a Markdown suffix, some text.
ValidDocument(p, disk) == p \in disk /\ p.ext \in MarkdownSuffixes /\ Content(p).text

\* The directory convert_file writes to.
OutDirOf(input_file, output_dir) == IF output_dir = NoDir THEN input_file.dir ELSE output_dir

\* C1: convert_file on an input that is not on disk, or whose suffix is not
\* .md/.markdown up to case, fails with an error message after validation
\* alone: no parse, render, pack or cleanup step runs and the filesystem is
\* as before. An input on disk with suffix .md, .MD, .markdown or .Markdown
\* passes validation and is parsed.
C1_ValidationFailure ==
  cf.called =>
    IF cf.input_file \notin cf.before \/ cf.input_file.ext \notin MarkdownSuffixes
    THEN /\ ~cf.result.success
         /\ cf.result.error # NoError
         /\ cf.result.error.msg \in {"File not found", "Not a Markdown file"}
         /\ cf.steps = <<"validate">>
         /\ files = cf.before
         /\ cf.result.output_file = None
         /\ cf.result.assets_dir = None
         /\ cf.result.zip_file = None
    ELSE /\ Len(cf.steps) >= 2
         /\ cf.steps[2] = "parse"

C1_Witness ==
  /\ cf.called
  /\ cf.input_file \in cf.before
  /\ cf.input_file.ext = ".txt"
  /\ ~cf.result.success
  /\ cf.steps = <<"validate">>

\* C2: convert_file on a valid, non-empty Markdown file in the default mode,
\* with no operation failing, succeeds: success is true, error is unset and
\* output_file is <outputDir>/<basename>.html, on disk.
C2_ValidFileSucceeds ==
  (/\ cf.called
   /\ ValidDocument(cf.input_file, cf.before)
   /\ cf.export_mode = DEFAULT
   /\ faults = {})
  => /\ cf.result.success
     /\ cf.result.error = NoError
     /\ cf.result.output_file =
          File(OutDirOf(cf.input_file, cf.output_dir), cf.input_file.stem, ".html")
     /\ cf.result.output_file \in files

\* The number of results of a list that succeeded.
RECURSIVE CountSuccess(_)
CountSuccess(results) ==
  IF results = <<>> THEN 0
  ELSE (IF Head(results).success THEN 1 ELSE 0) + CountSuccess(Tail(results))

\* C3: when convert_batch returns, total is the number of inputs, results
\* has one entry per input, successful and failed count the results with
\* success true and false, and they add up to total.
C3_BatchCounts ==
  cb.pc = "returned" =>
    /\ cb.total = Len(cb.input_files)
    /\ Len(cb.results) = Len(cb.input_files)
    /\ cb.successful = CountSuccess(cb.results)
    /\ cb.failed = Len(cb.results) - CountSuccess(cb.results)
    /\ cb.successful + cb.failed = cb.total

C3_Witness ==
  /\ cb.pc = "returned"
  /\ cb.total = 2
  /\ cb.failed = 2
  /\ cb.input_files[1] # cb.input_files[2]

\* C4: a failed document never stops convert_batch. The loop converts the
\* inputs one after the other without skipping, result i is the result of
\* input i, a call that has a failed result goes on to convert every later
\* input, and each failed result carries its own error: a validation
\* failure names the input it is about.
C4_FailureDoesNotStopBatch ==
  cb.pc # "idle" =>
    /\ Len(cb.results) <= Len(cb.input_files)
    /\ \A k \in 1..Len(cb.results) :
         /\ cb.results[k].input_file = cb.input_files[k]
         /\ ~cb.results[k].success =>
              /\ cb.results[k].error # NoError
              /\ cb.input_files[k] \notin files =>
                   cb.results[k].error = [msg |-> "File not found", arg |-> cb.input_files[k]]
              /\ (cb.input_files[k] \in files /\ cb.input_files[k].ext \notin MarkdownSuffixes) =>
                   cb.results[k].error = [msg |-> "Not a Markdown file", arg |-> cb.input_files[k]]
    /\ cb.pc = "loop" => cb.i = Len(cb.results)
    /\ (cb.pc \in {"returned", "raised"} /\ \E k \in 1..Len(cb.results) : ~cb.results[k].success)
         => Len(cb.results) = Len(cb.input_files)

C4_Witness ==
  /\ cb.pc = "returned"
  /\ Len(cb.results) = 2
  /\ ~cb.results[1].success
  /\ cb.results[1].error.msg = "File not found"
  /\ cb.results[2].input_file = cb.input_files[2]
  /\ cb.results[2].error.msg # "File not found"
  /\ Len(cb.steps[2]) >= 2

\* C5: convert_batch never leaves by an exception, even when no operation
\* of the operating system fails.
C5_BatchNeverRaises == faults = {} => cb.pc # "raised"

\* The (output_file, assets_dir) pairs of the successful results, in order.
RECURSIVE SuccessPairs(_)
SuccessPairs(results) ==
  IF results = <<>> THEN <<>>
  ELSE (IF Head(results).success
        THEN <<<<Head(results).output_file, Head(results).assets_dir>>>>
        ELSE <<>>) \o SuccessPairs(Tail(results))

HtmlEntries(entries) == { k \in 1..Len(entries) : entries[k].root }

\* C7: convert_batch in batch-zip mode over n >= 1 valid Markdown files with
\* distinct basenames, with no operation failing, returns total = n,
\* successful = n, failed = 0 and a batch_zip that is on disk and holds
\* exactly n HTML entries.
C7_BatchZipAllSucceed ==
  (/\ cb.pc = "returned"
   /\ cb.export_mode = BATCH_ZIP
   /\ faults = {}
   /\ Len(cb.input_files) >= 1
   /\ \A k \in 1..Len(cb.input_files) : ValidDocument(cb.input_files[k], files)
   /\ \A j, k \in 1..Len(cb.input_files) :
        j # k => cb.input_files[j].stem # cb.input_files[k].stem)
  => /\ cb.total = Len(cb.input_files)
     /\ cb.successful = Len(cb.input_files)
     /\ cb.failed = 0
     /\ cb.batch_zip \in files
     /\ cb.batch_zip \in DOMAIN zips
     /\ Cardinality(HtmlEntries(zips[cb.batch_zip])) = Len(cb.input_files)

\* C8 as stated: when convert_batch returns over n >= 1 files the callback
\* has fired exactly once per item, with current = 1, 2, ..., n and
\* total = n, no value of current twice.
C8_OncePerItem ==
  (cb.pc = "returned" /\ Len(cb.input_files) >= 1) =>
    /\ Len(cb.progress) = Len(cb.input_files)
    /\ \A k \in 1..Len(cb.progress) :
         cb.progress[k].current = k /\ cb.progress[k].total = Len(cb.input_files)

\* C8 amended: the "Converting" reports come first, at most one per item and
\* in input order: the k-th has current = k and total = n. When
\* convert_batch returns there are exactly n of them, followed by one
\* "Creating batch ZIP..." report if a batch archive is built and always by
\* a last "Complete!" report, both with current = total = n.
C8_ItemReportsThenComplete ==
  cb.pc # "idle" =>
    LET n == Len(cb.input_files)
        items == { k \in 1..Len(cb.progress) : cb.progress[k].msg = "Converting" }
    IN /\ items = 1..Cardinality(items)
       /\ Cardinality(items) <= n
       /\ \A k \in items : cb.progress[k] = [current |-> k, total |-> n, msg |-> "Converting"]
       /\ cb.pc = "loop" => Len(cb.progress) = cb.i /\ Cardinality(items) = cb.i
       /\ cb.pc = "returned" =>
            /\ Cardinality(items) = n
            /\ Len(cb.progress) = n + 1 + Len(cb.pack_calls)
            /\ cb.progress[Len(cb.progress)] = [current |-> n, total |-> n, msg |-> "Complete!"]
            /\ \A k \in (n + 1)..(Len(cb.progress) - 1) :
                 cb.progress[k] = [current |-> n, total |-> n, msg |-> "Creating batch ZIP..."]

C8_Witness ==
  /\ cb.pc = "returned"
  /\ Len(cb.input_files) = 2
  /\ Len(cb.progress) = 3
  /\ cb.progress[2].current = 2
  /\ cb.progress[3].current = 2

\* C9: in individual-zip mode on a valid document, when the archive cannot
\* be created, convert_file still succeeds: success stays true, error and
\* zip_file stay unset, a "ZIP creation failed" warning is added, the
\* rendered HTML stays on disk and cleanup is not run.
C9_PackFailureIsWarning ==
  (/\ cf.called
   /\ ValidDocument(cf.input_file, cf.before)
   /\ cf.export_mode = INDIVIDUAL_ZIP
   /\ faults \in {{"zip_open"}, {"zip_write"}})
  => /\ cf.result.success
     /\ cf.result.error = NoError
     /\ cf.result.zip_file = None
     /\ \E k \in 1..Len(cf.result.warnings) : cf.result.warnings[k].msg = "ZIP creation failed"
     /\ File(OutDirOf(cf.input_file, cf.output_dir), cf.input_file.stem, ".html") \in files
     /\ cf.result.assets_dir # None => cf.result.assets_dir \in files
     /\ "cleanup" \notin Range(cf.steps)

\* C10: in individual-zip mode on a valid document, with no operation
\* failing, convert_file packs right after the render, sets zip_file to
\* <basename>.zip next to the HTML, and with cleanup requested then removes
\* the loose HTML file and asset directory; without it they stay.
C10_PackThenCleanup ==
  (/\ cf.called
   /\ ValidDocument(cf.input_file, cf.before)
   /\ cf.export_mode = INDIVIDUAL_ZIP
   /\ faults = {})
  => LET out == OutDirOf(cf.input_file, cf.output_dir)
         html == File(out, cf.input_file.stem, ".html")
     IN /\ cf.steps = IF cf.cleanup
                      THEN <<"validate", "parse", "render", "pack", "cleanup">>
                      ELSE <<"validate", "parse", "render", "pack">>
        /\ cf.result.zip_file = File(out, cf.input_file.stem, ".zip")
        /\ cf.result.zip_file \in files
        /\ cf.cleanup => (html \notin files /\ AssetsDir(out, cf.input_file.stem) \notin files)
        /\ ~cf.cleanup => html \in files

\* C11: pack_batch with an empty item list returns success = false with
\* the error "No items to pack", zip_file unset and files_packed empty, and
\* leaves the disk as it was: no archive and no directory is created.
C11_EmptyBatchFails ==
  (api.op = "pack_batch" /\ api.items = <<>>) =>
    /\ ~api.raised
    /\ ~api.result.success
    /\ api.result.error = [msg |-> "No items to pack"]
    /\ api.result.zip_file = None
    /\ api.result.files_packed = <<>>
    /\ files = api.before
    /\ zips = api.zips_before

C11_Witness ==
  /\ api.op = "pack_batch"
  /\ api.items = <<>>
  /\ Dir(api.output_dir) \notin files
  /\ api.result.error = [msg |-> "No items to pack"]

\* The positions of the items of a list whose HTML file is on the disk.
PresentItems(items, disk) == { k \in 1..Len(items) : items[k][1] \in disk }

AssetFileCount(assets_dir, disk) ==
  IF assets_dir = None THEN 0
  ELSE IF assets_dir \notin disk THEN 0
  ELSE Cardinality({ f \in disk : /\ f.kind = "asset"
                                  /\ f.dir = assets_dir.dir
                                  /\ f.base = assets_dir.base })

\* The asset entries expected of the items at the positions ks.
RECURSIVE AssetFileTotal(_, _, _)
AssetFileTotal(items, ks, disk) ==
  IF ks = {} THEN 0
  ELSE LET k == CHOOSE j \in ks : TRUE
       IN AssetFileCount(items[k][2], disk) + AssetFileTotal(items, ks \ {k}, disk)

\* C13: a successful pack_individual adds the HTML file at the archive root
\* under its file name and one entry <assets_dir name>/<relative path> for
\* every regular file beneath an existing assets_dir, nothing else; a
\* successful pack_batch adds the same for every item it packs. So
\* files_packed has as many entries as HTML files packed plus files beneath
\* their asset directories.
C13_EntriesAreHtmlPlusAssetFiles ==
  /\ (api.op = "pack_individual" /\ api.result.success) =>
       LET packed == api.result.files_packed
       IN /\ Len(packed) = 1 + AssetFileCount(api.assets_dir, api.before)
          /\ packed[1] = [root |-> TRUE, base |-> "",
                          name |-> [stem |-> api.html_file.stem, ext |-> api.html_file.ext]]
          /\ { packed[k] : k \in 2..Len(packed) } =
               { [root |-> FALSE, base |-> f.base, name |-> f.name] :
                   f \in { g \in api.before : /\ api.assets_dir # None
                                               /\ api.assets_dir \in api.before
                                               /\ g.kind = "asset"
                                               /\ g.dir = api.assets_dir.dir
                                               /\ g.base = api.assets_dir.base } }
          /\ zips[api.result.zip_file] = packed
  /\ (api.op = "pack_batch" /\ api.result.success) =>
       LET packed == api.result.files_packed
           present == PresentItems(api.items, api.before)
       IN /\ Len(packed) = Cardinality(present) + AssetFileTotal(api.items, present, api.before)
          /\ Cardinality(HtmlEntries(packed)) = Cardinality(present)

C13_Witness ==
  /\ api.op = "pack_batch"
  /\ api.result.success
  /\ api.items = << <<File("pub", "y", ".html"), None>>,
                    <<File("pub", "x", ".html"), AssetsDir("pub", "x")>> >>
  /\ Len(api.result.files_packed) = 4
  /\ AssetSubDir("pub", "x", "icons") \in api.before

\* C14: pack_individual on an html_file that does not exist returns
\* success = false with an error message, zip_file unset and files_packed
\* empty, and leaves the disk as it was: no <stem>.zip is created, and one
\* that is there keeps its entries.
C14_MissingHtmlFails ==
  (api.op = "pack_individual" /\ api.html_file \notin api.before) =>
    /\ ~api.result.success
    /\ api.result.error = [msg |-> "HTML file not found", arg |-> api.html_file]
    /\ api.result.zip_file = None
    /\ api.result.files_packed = <<>>
    /\ files = api.before
    /\ zips = api.zips_before

C14_Witness ==
  /\ api.op = "pack_individual"
  /\ api.html_file = File("pub", "z", ".html")
  /\ ~api.result.success
  /\ File("pub", "z", ".zip") \in files
  /\ zips[File("pub", "z", ".zip")] = InitialZips[File("pub", "z", ".zip")]

\* C15: when render returns, assets_dir is set exactly when the parse result
\* has local images, and it is then <output_dir>/assets_<basename>, on disk;
\* a render of a document without local images creates no asset directory
\* and no asset (remote images make none).
C15_AssetsDirIffLocalImages ==
  (api.op = "render" /\ ~api.raised) =>
    LET dir == AssetsDir(api.output_dir, api.parse_result.source_file.stem)
        has_local == api.parse_result.local_images # <<>>
    IN /\ (api.result.assets_dir # None) <=> has_local
       /\ has_local => (api.result.assets_dir = dir /\ dir \in files)
       /\ ~has_local =>
            \A f \in files \ api.before : f.kind \notin {"assets", "asset", "assetsub"}

C15_Witness ==
  /\ api.op = "render"
  /\ api.result.success
  /\ Len(api.parse_result.images) = 1
  /\ api.parse_result.local_images = <<>>
  /\ api.result.assets_dir = None
  /\ AssetsDir(api.output_dir, api.parse_result.source_file.stem) \notin files

\* The ParseResult of the caller's last call on the parser or the renderer.
LastParseResult == IF api.op = "parse" THEN api.result ELSE api.parse_result

\* The file stems placeholder_<stem>, plain or made unique by a counter.
PlaceholderStems(src) ==
  CASE src \in {"pic.png", "sub/pic.png"} ->
         {"placeholder_pic", "placeholder_pic_0001", "placeholder_pic_0002",
          "placeholder_pic_0003"}
    [] src = "pic_0001.png" ->
         {"placeholder_pic_0001", "placeholder_pic_0001_0001",
          "placeholder_pic_0001_0002", "placeholder_pic_0001_0003"}
    [] src = "ftp://x/r.png" -> {"placeholder_r"}
    [] OTHER -> {"placeholder_missing"}

\* The position of the last local image with the src of the one at i.
LastWithSrc(imgs, i) ==
  CHOOSE j \in i..Len(imgs) :
    /\ imgs[j].original_src = imgs[i].original_src
    /\ \A k \in (j + 1)..Len(imgs) : imgs[k].original_src # imgs[i].original_src

\* What parse and render do for every missing local image, whatever the
\* src is mapped to: parse warns "Image not found: <original_src>", render
\* (no copy or save failing) writes a placeholder named
\* placeholder_<stem or missing>.png, plain or made unique, into the asset
\* directory, and the RenderResult carries the warning.
MissingImagesGetPlaceholders ==
  /\ api.op \in {"parse", "render"} =>
       \A i \in 1..Len(LastParseResult.local_images) :
         ~LastParseResult.local_images[i].exists =>
           [msg |-> "Image not found",
            arg |-> LastParseResult.local_images[i].original_src]
             \in Range(LastParseResult.warnings)
  /\ (api.op = "render" /\ ~api.raised /\ faults \cap {"copy", "save", "asset_space"} = {}) =>
       LET imgs == api.parse_result.local_images
           base == api.parse_result.source_file.stem
       IN /\ Len(api.result.copied_images) = Len(imgs)
          /\ \A i \in 1..Len(imgs) :
               ~imgs[i].exists =>
                 /\ api.result.copied_images[i].kind = "asset"
                 /\ api.result.copied_images[i].dir = api.output_dir
                 /\ api.result.copied_images[i].base = base
                 /\ api.result.copied_images[i].name.ext = ".png"
                 /\ api.result.copied_images[i].name.stem
                      \in PlaceholderStems(imgs[i].original_src)
                 /\ api.result.copied_images[i] \in files
                 /\ [msg |-> "Image not found", arg |-> imgs[i].original_src]
                      \in Range(api.result.warnings)

RemoteSrcs ==
  {"https://x/r.png", "https%3A//x/r.png", "HTTP://x/r.png", "data:image/png;base64,AA=="}

\* C17: in every ParseResult an image whose URL-decoded scheme is http,
\* https or data is remote: is_local and exists are false, local_path is
\* unset, it is not among local_images, and the disk plays no part (the
\* same ImageInfo comes out over an empty disk). Every other image is
\* local and among local_images. No image of the document is left out.
C17_RemoteBySchemeElseLocal ==
  api.op \in {"parse", "render"} =>
    LET pr == LastParseResult
        srcs == IF api.op = "parse" THEN api.content.imgs
                ELSE api.parse_result.html.imgs
    IN /\ "transform" \notin faults => Len(pr.images) = Len(srcs)
       /\ \A i \in 1..Len(pr.images) :
            /\ "transform" \notin faults => pr.images[i].original_src = srcs[i]
            /\ IF pr.images[i].original_src \in RemoteSrcs
               THEN /\ ~pr.images[i].is_local
                    /\ ~pr.images[i].exists
                    /\ pr.images[i].local_path = None
                    /\ pr.images[i] \notin Range(pr.local_images)
                    /\ pr.images[i] =
                         AnalyzeImageSrc(pr.images[i].original_src, pr.source_file, {})
               ELSE /\ pr.images[i].is_local
                    /\ pr.images[i] \in Range(pr.local_images)

C17_Witness ==
  /\ api.op = "parse"
  /\ api.content.imgs = <<"https%3A//x/r.png">>
  /\ Len(api.result.images) = 1
  /\ ~api.result.images[1].is_local
  /\ api.result.local_images = <<>>

\* The warnings parse_file gives when it yields an empty html: the file
\* cannot be read, the transform fails, or the document has no text.
EmptyParseWarnings(input_file) ==
  IF "read" \in faults THEN <<[msg |-> "Failed to read file", arg |-> input_file]>>
  ELSE IF "transform" \in faults
  THEN <<[msg |-> "Markdown parsing error", arg |-> input_file]>>
  ELSE <<>>

\* C18: whenever the parse of a validated input yields an empty html (the
\* file cannot be read, the transform fails or produces nothing),
\* convert_file fails with the error "Failed to parse Markdown" and the
\* warnings of the parse, and stops there: neither render nor the packer
\* runs, the disk is as before and the result names no output.
C18_EmptyParseFails ==
  (/\ cf.called
   /\ cf.input_file \in cf.before
   /\ cf.input_file.ext \in MarkdownSuffixes
   /\ ("read" \in faults \/ "transform" \in faults \/ ~Content(cf.input_file).text))
  => /\ ~cf.result.success
     /\ cf.result.error = [msg |-> "Failed to parse Markdown"]
     /\ cf.result.warnings = EmptyParseWarnings(cf.input_file)
     /\ cf.steps = <<"validate", "parse">>
     /\ files = cf.before
     /\ cf.result.output_file = None
     /\ cf.result.assets_dir = None
     /\ cf.result.zip_file = None

C18_Witness ==
  /\ cf.called
  /\ faults = {"read"}
  /\ Content(cf.input_file).text
  /\ cf.steps = <<"validate", "parse">>
  /\ cf.result.error = [msg |-> "Failed to parse Markdown"]
  /\ cf.result.warnings = <<[msg |-> "Failed to read file", arg |-> cf.input_file]>>

\* The steps of convert_file's pipeline, in order.
Pipeline == <<"validate", "parse", "render", "pack", "cleanup">>

\* C19: every convert_file runs a prefix of validate, parse, render, pack,
\* cleanup. Pack runs only in individual-zip mode, cleanup only after a
\* successful pack with cleanup requested. A failed result comes from a
\* failed validation, a parse that yields an empty html, or a failed
\* render, and from nothing else; a successful one has rendered.
C19_PipelineOrder ==
  cf.called =>
    /\ \E n \in 1..Len(Pipeline) : cf.steps = SubSeq(Pipeline, 1, n)
    /\ "pack" \in Range(cf.steps) => cf.export_mode = INDIVIDUAL_ZIP
    /\ "cleanup" \in Range(cf.steps) => (cf.cleanup /\ cf.result.zip_file # None)
    /\ cf.result.success => "render" \in Range(cf.steps)
    /\ ~cf.result.success =>
         \/ /\ cf.steps = <<"validate">>
            /\ (cf.input_file \notin cf.before \/ cf.input_file.ext \notin MarkdownSuffixes)
         \/ /\ cf.steps = <<"validate", "parse">>
            /\ ("read" \in faults \/ "transform" \in faults \/ ~Content(cf.input_file).text)
         \/ /\ cf.steps = <<"validate", "parse", "render">>
            /\ faults \cap {"mkdir", "write"} # {}

\* C20: the file names one render call assigns to the local images it
\* copies or draws placeholders for are pairwise distinct, so no asset of
\* the call is written over another.
C20_AssignedNamesDistinct ==
  (api.op = "render" /\ ~api.raised) =>
    \A i, j \in 1..Len(api.result.copied_images) :
      i # j => api.result.copied_images[i] # api.result.copied_images[j]

\* C21: rendering the same document again over unchanged source files,
\* with the same renderer or a new one and whatever was rendered in
\* between, assigns every image the file name it got the first time and
\* rewrites the HTML the same way. The names follow from one render call
\* alone: a file name not yet requested in the call is kept as it is, a
\* real file whose name was requested before gets <stem>_<first 8 hex of
\* its content hash><ext>, a placeholder whose name was requested before
\* gets <stem>_<4-digit count of the earlier requests><ext>.
C21_NamingIsPerRender ==
  (api.op = "render" /\ api.again /\ ~api.second_raised) =>
    /\ api.second.copied_images = api.result.copied_images
    /\ api.second.html = api.result.html
    /\ api.second.assets_dir = api.result.assets_dir
    /\ faults \cap {"copy", "save", "asset_space"} = {} =>
         LET imgs == api.parse_result.local_images
             Requested(i) ==
               IF imgs[i].exists
               THEN Name(imgs[i].local_path.stem, imgs[i].local_path.ext, "")
               ELSE Name(PlaceholderStem(imgs[i].original_src), ".png", "")
             Earlier(i) == Cardinality({ j \in 1..(i - 1) : Requested(j) = Requested(i) })
         IN /\ Len(api.second.copied_images) = Len(imgs)
            /\ \A i \in 1..Len(imgs) :
                 api.second.copied_images[i].name =
                   IF Earlier(i) = 0 THEN Requested(i)
                   ELSE IF imgs[i].exists
                   THEN Name(Requested(i).stem, Requested(i).ext, ContentHash(imgs[i].local_path))
                   ELSE Name(Requested(i).stem, Requested(i).ext, Fmt04(Earlier(i)))

C21_Witness ==
  /\ api.op = "render"
  /\ api.again /\ api.between
  /\ api.second.success
  /\ Len(api.second.copied_images) = 3
  /\ api.second.copied_images[1].name = Name("pic", ".png", "")
  /\ api.second.copied_images[2].name = Name("pic", ".png", "5e6f7a8b")
  /\ api.second.copied_images[3].name = Name("placeholder_pic_0001", ".png", "")
  /\ api.second.copied_images = api.result.copied_images

\* The number of warnings of a list that report a failed copy or a failed
\* placeholder.
RECURSIVE AssetFailures(_)
AssetFailures(warnings) ==
  IF warnings = <<>> THEN 0
  ELSE (IF Head(warnings).msg \in {"Failed to copy image", "Failed to generate placeholder"}
        THEN 1 ELSE 0) + AssetFailures(Tail(warnings))

\* Whether a list of warnings reports that the copy or the placeholder of
\* the local image img failed.
ReportedFailed(img, warnings) ==
  \E k \in 1..Len(warnings) :
    \/ /\ warnings[k].msg = "Failed to copy image"
       /\ img.exists
       /\ warnings[k].arg = img.local_path
    \/ /\ warnings[k].msg = "Failed to generate placeholder"
       /\ ~img.exists
       /\ warnings[k].arg = img.original_src

\* What a returned render does about assets that fail: every local image is
\* either written to the asset directory or reported in a warning, and the
\* result is successful whenever the HTML file is written.
AssetFailuresAreWarnings ==
  (api.op = "render" /\ ~api.raised) =>
    /\ Len(api.result.copied_images) + AssetFailures(api.result.warnings)
         = Len(api.parse_result.local_images)
    /\ "write" \notin faults => api.result.success

\* The src of a local image whose copy or placeholder failed is left as it
\* was in the HTML of the render.
FailedSrcUnrewritten ==
  (api.op = "render" /\ ~api.raised) =>
    \A i \in 1..Len(api.parse_result.local_images) :
      ReportedFailed(api.parse_result.local_images[i], api.result.warnings) =>
        \A k \in 1..Len(api.result.html.imgs) :
          api.result.html.imgs[k].original = api.parse_result.local_images[i].original_src
            => ~api.result.html.imgs[k].rewritten

\* C22: when the copy of a local image or the drawing of its placeholder
\* fails during render, a warning is recorded, the src of the image is left
\* unrewritten in the HTML, the other images are still processed and the
\* RenderResult is successful; and convert_file on a valid document with a
\* local image succeeds under such a failure.
C22_AssetFailureIsWarning ==
  /\ AssetFailuresAreWarnings
  /\ FailedSrcUnrewritten
  /\ (/\ cf.called
      /\ ValidDocument(cf.input_file, cf.before)
      /\ Content(cf.input_file).imgs = <<"pic.png">>
      /\ faults \in {{"copy"}, {"save"}, {"asset_space"}})
     => cf.result.success /\ cf.result.error = NoError

\* What a returned render does when the HTML file cannot be written:
\* success is false, output_file is unset, a "Failed to write output file"
\* warning names the file, the file is not on disk unless it was before, and
\* every asset the call copied or drew is still in the asset directory.
WriteFailureKeepsAssets ==
  (api.op = "render" /\ ~api.raised /\ "write" \in faults) =>
    LET output_file == File(api.output_dir, api.parse_result.source_file.stem, ".html")
    IN /\ ~api.result.success
       /\ api.result.output_file = None
       /\ \E k \in 1..Len(api.result.warnings) :
            /\ api.result.warnings[k].msg = "Failed to write output file"
            /\ api.result.warnings[k].arg = output_file
       /\ output_file \in files => output_file \in api.before
       /\ Len(api.result.copied_images) = Len(api.parse_result.local_images)
       /\ \A i \in 1..Len(api.result.copied_images) : api.result.copied_images[i] \in files
       /\ api.parse_result.local_images # <<>> => api.result.assets_dir \in files

\* C23: when writing <basename>.html fails, render returns success = false
\* with output_file unset and a warning and leaves the assets it copied in
\* place; and convert_file on a valid document then fails with the error
\* "Failed to render HTML" after validate, parse and render, without
\* running pack or cleanup.
C23_WriteFailureFailsConversion ==
  /\ WriteFailureKeepsAssets
  /\ (/\ cf.called
      /\ ValidDocument(cf.input_file, cf.before)
      /\ faults = {"write"})
     => /\ ~cf.result.success
        /\ cf.result.error = [msg |-> "Failed to render HTML"]
        /\ cf.steps = <<"validate", "parse", "render">>
        /\ cf.result.zip_file = None

\* The messages of the warnings a render call itself appends.
RenderWarningMsgs ==
  {"Failed to copy image", "Failed to generate placeholder", "Failed to write output file"}

\* Every warning of the parse and every warning of the render is in
\* RenderResult.warnings: the list is as long as the two together, each
\* local image is either written or reported, and a failed write is
\* reported.
AllWarningsMerged ==
  (api.op = "render" /\ ~api.raised) =>
    LET w == api.result.warnings
        own == { k \in 1..Len(w) : w[k].msg \in RenderWarningMsgs }
    IN /\ Len(w) = Cardinality(own) + Len(api.parse_result.warnings)
       /\ Len(api.result.copied_images) + AssetFailures(w)
            = Len(api.parse_result.local_images)
       /\ ~api.result.success <=>
            \E k \in own : w[k].msg = "Failed to write output file"

\* C24 as stated: besides, the warnings of the parse come first, in their
\* order, and the warnings of the render after them.
C24_ParseThenRenderOrder ==
  /\ AllWarningsMerged
  /\ (api.op = "render" /\ ~api.raised) =>
       LET w == api.result.warnings
           n == Len(api.parse_result.warnings)
       IN /\ SubSeq(w, 1, n) = api.parse_result.warnings
          /\ \A k \in (n + 1)..Len(w) : w[k].msg \in RenderWarningMsgs

\* C24 amended: besides, the warnings of the render come first (the failed
\* assets in image order, then the failed write) and the warnings of the
\* parse after them, in their order.
C24_RenderThenParseOrder ==
  /\ AllWarningsMerged
  /\ (api.op = "render" /\ ~api.raised) =>
       LET w == api.result.warnings
           n == Len(w) - Len(api.parse_result.warnings)
       IN /\ SubSeq(w, n + 1, Len(w)) = api.parse_result.warnings
          /\ \A k \in 1..n : w[k].msg \in RenderWarningMsgs
          /\ \A k \in 1..(n - 1) : w[k].msg # "Failed to write output file"

C24_Witness ==
  /\ api.op = "render"
  /\ ~api.raised
  /\ faults = {"copy"}
  /\ Len(api.result.warnings) = 2
  /\ api.result.warnings[1].msg = "Failed to copy image"
  /\ api.result.warnings[2].msg = "Image not found"
  /\ Len(api.result.copied_images) = 1

\* C25: in every ParseResult of parse, local_images is the subsequence of
\* images with is_local true, in the order of images, and the "Image not
\* found" warnings are one per local image that does not exist: as many
\* name a src as there are missing local images with that src.
C25_LocalImagesAndWarnings ==
  api.op \in {"parse", "render"} =>
    LET pr == LastParseResult
        idx == { i \in 1..Len(pr.images) : pr.images[i].is_local }
        Nth(k) == CHOOSE i \in idx : Cardinality({ j \in idx : j < i }) = k - 1
        missing == { k \in 1..Len(pr.local_images) : ~pr.local_images[k].exists }
        not_found == { k \in 1..Len(pr.warnings) : pr.warnings[k].msg = "Image not found" }
    IN /\ Len(pr.local_images) = Cardinality(idx)
       /\ \A k \in 1..Len(pr.local_images) : pr.local_images[k] = pr.images[Nth(k)]
       /\ Cardinality(not_found) = Cardinality(missing)
       /\ \A m \in missing :
            Cardinality({ k \in not_found : pr.warnings[k].arg = pr.local_images[m].original_src })
              = Cardinality({ k \in missing : pr.local_images[k].original_src
                                                = pr.local_images[m].original_src })

C25_Witness ==
  /\ api.op = "parse"
  /\ api.content.imgs = <<"pic.png", RemoteSrc, "pic.png">>
  /\ api.source_file = File("in2", "b", ".md")
  /\ Len(api.result.images) = 3
  /\ Len(api.result.local_images) = 2
  /\ Len(api.result.warnings) = 2
  /\ api.result.local_images[2] = api.result.images[3]

\* What cleanup_after_zip does when it fails: it returns false, and no
\* archive is removed or changed. It fails exactly when the HTML file
\* cannot be unlinked or the asset directory cannot be removed.
CleanupFailureKeepsArchives ==
  api.op = "cleanup_after_zip" =>
    /\ api.result <=>
         ~ \/ ("unlink" \in faults /\ api.html_file \in api.before)
           \/ /\ "rmtree" \in faults
              /\ api.assets_dir # None
              /\ api.assets_dir \in api.before
    /\ \A f \in api.before : f.kind = "file" /\ f.ext = ".zip" => f \in files
    /\ zips = api.zips_before

\* C26: a cleanup that fails after a successful pack does not undo the
\* pack. cleanup_after_zip reports the failure and leaves the archives
\* alone; convert_file in individual-zip mode with cleanup requested, on a
\* valid document while unlink or rmtree fails, returns success = true with
\* zip_file set and the archive on disk; convert_batch in batch-zip mode
\* with cleanup requested, over at least one valid document, returns with
\* batch_zip set and the archive on disk.
C26_CleanupFailureKeepsPack ==
  /\ CleanupFailureKeepsArchives
  /\ (/\ cf.called
      /\ ValidDocument(cf.input_file, cf.before)
      /\ cf.export_mode = INDIVIDUAL_ZIP
      /\ cf.cleanup
      /\ faults \in {{"unlink"}, {"rmtree"}})
     => /\ cf.result.success
        /\ cf.result.zip_file =
             File(OutDirOf(cf.input_file, cf.output_dir), cf.input_file.stem, ".zip")
        /\ cf.result.zip_file \in files
  /\ (/\ cb.pc = "returned"
      /\ cb.export_mode = BATCH_ZIP
      /\ cb.cleanup
      /\ faults \in {{"unlink"}, {"rmtree"}}
      /\ \E k \in 1..Len(cb.input_files) : ValidDocument(cb.input_files[k], files))
     => /\ cb.batch_zip # None
        /\ cb.batch_zip \in files

\* A ConversionResult is failed exactly when it carries an error, and the
\* error of a failed one has a message.
ErrorIffFailed(result) ==
  /\ ~result.success <=> result.error # NoError
  /\ ~result.success => result.error.msg \notin {"", "none"}

\* C27: every ConversionResult convert_file returns, to its caller or to
\* convert_batch, has success = false exactly when error is set: a
\* successful result carries no error and a failed one a message.
C27_ErrorIffFailed ==
  /\ cf.called => ErrorIffFailed(cf.result)
  /\ cb.pc # "idle" => \A k \in 1..Len(cb.results) : ErrorIffFailed(cb.results[k])

C27_Witness ==
  /\ cb.pc = "returned"
  /\ Len(cb.results) = 2
  /\ cb.results[1].error.msg = "Not a Markdown file"
  /\ cb.results[2].error.msg = "AttributeError"
  /\ ~cb.results[1].success /\ ~cb.results[2].success

ReturnedPathsExist ==
  LET OnDisk(result) ==
        result.success =>
          /\ result.output_file # None => result.output_file \in files
          /\ result.assets_dir # None => result.assets_dir \in files
  IN /\ cf.called => OnDisk(cf.result)
     /\ cb.pc = "returned" => \A k \in 1..Len(cb.results) : OnDisk(cb.results[k])

\* convert_file in individual-zip mode with cleanup requested, on a valid
\* document with no operation failing, removes the loose HTML and returns
\* a result with output_file and assets_dir unset.
IndividualCleanupUnsetsPaths ==
  (/\ cf.called
   /\ ValidDocument(cf.input_file, cf.before)
   /\ cf.export_mode = INDIVIDUAL_ZIP
   /\ cf.cleanup
   /\ faults = {})
  => /\ "cleanup" \in Range(cf.steps)
     /\ File(OutDirOf(cf.input_file, cf.output_dir), cf.input_file.stem, ".html") \notin files
     /\ cf.result.output_file = None
     /\ cf.result.assets_dir = None

\* convert_batch in batch-zip mode with cleanup requested, over valid
\* documents with no operation failing, cleans up after the batch archive
\* and returns results with output_file and assets_dir unset.
BatchCleanupUnsetsPaths ==
  (/\ cb.pc = "returned"
   /\ cb.export_mode = BATCH_ZIP
   /\ cb.cleanup
   /\ faults = {}
   /\ Len(cb.input_files) >= 1
   /\ \A k \in 1..Len(cb.input_files) : ValidDocument(cb.input_files[k], files))
  => /\ cb.cleaned
     /\ \A k \in 1..Len(cb.results) :
          cb.results[k].output_file = None /\ cb.results[k].assets_dir = None

Distinct(seq) == \A i, j \in 1..Len(seq) : i # j => seq[i] # seq[j]

\* Two successful results of different documents name different HTML files
\* and different asset directories.
OutputsApart(r1, r2) ==
  (r1.success /\ r2.success) =>
    /\ r1.output_file # r2.output_file
    /\ (r1.assets_dir # None /\ r2.assets_dir # None) => r1.assets_dir # r2.assets_dir

====
